---- MODULE Spec2Model ----
(***************************************************************************)
(* Score ensemblers (pysad/transform/ensemble/ensemblers.py) and the PyOD  *)
(* model holder (models/pyod_model.py).                                    *)
(*                                                                         *)
(* The ensemblers are adapters: transform_partial reshapes the score       *)
(* vector to one row and hands it to a combination function of the wrapped *)
(* library.  The adapters are modelled from their source.  The library's   *)
(* functions (average, maximization, median, aom, moa) are not part of the *)
(* repository's files; they are modelled from the specification's section  *)
(* 4.1 and are the definitions named lib_*.                                *)
(*                                                                         *)
(* Scores are small naturals; a combined score is an exact fraction        *)
(* [num, den] in lowest terms, so floating-point rounding is not modelled. *)
(***************************************************************************)
EXTENDS Integers, Sequences, FiniteSets, TLC

VARIABLES
  pc,       \* "new" before an ensembler is constructed, "ready" after
  ens,      \* the ensembler instance: its class and its attributes
  ctor,     \* the arguments the ensembler was constructed with
  scores,   \* the score vector of the last transform_partial call
  outcome,  \* what the last transform_partial call returned or raised
  agree,    \* whether the last call repeated the input of the call before
            \* it and, if so, whether it returned the same ("same"/"differ")
  mpc,      \* "new" before a PYODModel is constructed, "ready" after
  pm,       \* the PYODModel instance: model_cls, kwargs, model
  margs,    \* the arguments the PYODModel was constructed with
  built     \* how many instances model_cls has built for this PYODModel

vars == <<pc, ens, ctor, scores, outcome, agree, mpc, pm, margs, built>>

ensVars == <<pc, ens, ctor, scores, outcome, agree>>

modelVars == <<mpc, pm, margs, built>>

---------------------------------------------------------------------------
(* Bounds of the model *)

MaxLen == 3

MaxResets == 12

(* Default of the n_buckets parameter of both bucket-based ensemblers *)
DefaultNBuckets == 5

ScoreValues == {0, 1}

ScoreVectors == UNION {[1..n -> ScoreValues] : n \in 1..MaxLen}

WeightValues == {1, 2}

WeightVectors == UNION {[1..n -> WeightValues] : n \in 1..MaxLen}

(* An optional value: <<>> is None, <<v>> is the value v *)
None == <<>>

Some(v) == <<v>>

(* "random" stands for any string that is neither 'static' nor 'dynamic' *)
Methods == {"static", "dynamic", "random"}

NBucketChoices == ((-1)..MaxLen) \cup {DefaultNBuckets}

---------------------------------------------------------------------------
(* Exact arithmetic on fractions *)

RECURSIVE GCD(_, _)
GCD(a, b) == IF b = 0 THEN a ELSE GCD(b, a % b)

Frac(n, d) ==
  LET g == GCD(n, d)
  IN  IF g = 0 THEN [num |-> 0, den |-> 1] ELSE [num |-> n \div g, den |-> d \div g]

FracLeq(p, q) == p.num * q.den <= q.num * p.den

RECURSIVE SumSeq(_)
SumSeq(s) == IF s = <<>> THEN 0 ELSE Head(s) + SumSeq(Tail(s))

MaxSeq(s) == CHOOSE x \in {s[i] : i \in DOMAIN s} : \A j \in DOMAIN s : s[j] <= x

MeanSeq(s) == Frac(SumSeq(s), Len(s))

FracAdd(p, q) == Frac(p.num * q.den + q.num * p.den, p.den * q.den)

RECURSIVE FracSum(_)
FracSum(s) == IF s = <<>> THEN Frac(0, 1) ELSE FracAdd(Head(s), FracSum(Tail(s)))

(* The mean of a non-empty sequence of fractions *)
FracMean(s) == LET t == FracSum(s) IN Frac(t.num, t.den * Len(s))

(* The maximum of a non-empty set of fractions *)
MaxFrac(S) == CHOOSE p \in S : \A q \in S : FracLeq(q, p)

(* The values of a row at the given positions, in the order of the positions *)
Pick(row, idx) == [k \in 1..Len(idx) |-> row[idx[k]]]

---------------------------------------------------------------------------
(* Results of a call *)

Ok(v) == [tag |-> "ok", score |-> v]

Err(e) == [tag |-> e]

NoCall == [tag |-> "none"]

---------------------------------------------------------------------------
(* The wrapped combination library, from the specification's section 4.1.  *)
(* X is a score matrix, a sequence of rows with one column per detector;   *)
(* each function gives the set of results it can return for row 1 (one     *)
(* result, unless a random source is consumed).                            *)

(* Average: the weighted mean; uniform weights when none are given; a      *)
(* weight vector whose length is not the detector count is rejected.       *)
lib_average(X, estimator_weights) ==
  LET row == X[1]
  IN  IF estimator_weights = None
      THEN {Ok(MeanSeq(row))}
      ELSE LET w == estimator_weights[1]
           IN  IF Len(w) # Len(row)
               THEN {Err("ConfigurationError")}
               ELSE {Ok(Frac(SumSeq([i \in 1..Len(row) |-> w[i] * row[i]]), SumSeq(w)))}

(* Max: the maximum element *)
lib_maximization(X) == {Ok(Frac(MaxSeq(X[1]), 1))}

(* Median: the middle element of the sorted row, or the average of the two *)
(* middle elements when the length is even                                 *)
lib_median(X) ==
  LET s == SortSeq(X[1], LAMBDA a, b : a < b)
      n == Len(s)
  IN  IF n % 2 = 1
      THEN {Ok(Frac(s[(n + 1) \div 2], 1))}
      ELSE {Ok(Frac(s[n \div 2] + s[n \div 2 + 1], 2))}

(* Static bucketing: the contiguous partition of the detectors 1..n, in    *)
(* input order, into n_buckets buckets of n \div n_buckets detectors.  The *)
(* specification is silent on a remainder; here the last bucket takes it.  *)
StaticBuckets(n, n_buckets) ==
  LET size == n \div n_buckets
  IN  [b \in 1..n_buckets |->
         [k \in 1..(IF b = n_buckets THEN n - (n_buckets - 1) * size ELSE size) |->
            (b - 1) * size + k]]

(* Dynamic bucketing: the partitions of the detectors into n_buckets       *)
(* non-empty buckets of any sizes, one of which the random source picks    *)
DynamicBuckets(n, n_buckets) ==
  LET onto == {f \in [1..n -> 1..n_buckets] : \A b \in 1..n_buckets : \E i \in 1..n : f[i] = b}
      ids  == [i \in 1..n |-> i]
  IN  {[b \in 1..n_buckets |-> SelectSeq(ids, LAMBDA i : f[i] = b)] : f \in onto}

(* Bootstrap: a bucket is a draw with replacement of size detectors.  The  *)
(* sums and the maxima that a draw of k of the values vals can have:       *)
RECURSIVE DrawSums(_, _)
DrawSums(vals, k) ==
  IF k = 0 THEN {0} ELSE {t + v : t \in DrawSums(vals, k - 1), v \in vals}

RECURSIVE DrawMaxes(_, _)
DrawMaxes(vals, k) ==
  IF k = 1 THEN vals
  ELSE {IF t >= v THEN t ELSE v : t \in DrawMaxes(vals, k - 1), v \in vals}

(* The sizes a bootstrap bucket can have: the static bucket size (at least *)
(* one detector), any size up to the detector count when dynamic           *)
BootstrapSizes(n, n_buckets, method) ==
  IF method = "static"
  THEN LET size == n \div n_buckets IN {IF size = 0 THEN 1 ELSE size}
  ELSE 1..n

(* The aggregates one bootstrap bucket can have *)
BootstrapAggregates(mode, row, n_buckets, method) ==
  LET vals == {row[i] : i \in DOMAIN row}
  IN  UNION {IF mode = "AOM"
             THEN {Frac(v, 1) : v \in DrawMaxes(vals, k)}
             ELSE {Frac(t, k) : t \in DrawSums(vals, k)}
             : k \in BootstrapSizes(Len(row), n_buckets, method)}

(* The reduction within one bucket: its maximum (AOM) or its mean (MOA) *)
BucketAggregate(mode, row, bucket) ==
  IF mode = "AOM" THEN Frac(MaxSeq(Pick(row, bucket)), 1) ELSE MeanSeq(Pick(row, bucket))

(* The reduction over the buckets: the mean of the maxima (AOM) or the     *)
(* maximum of the means (MOA)                                              *)
CombineBuckets(mode, aggs) ==
  IF mode = "AOM" THEN FracMean(aggs) ELSE MaxFrac({aggs[b] : b \in DOMAIN aggs})

(* The bucket-based combinations.  Rejected: n_buckets <= 0, n_buckets     *)
(* above the detector count with bootstrap disabled, a method that is      *)
(* neither 'static' nor 'dynamic'.                                         *)
lib_bucketed(mode, X, n_buckets, method, bootstrap_estimators) ==
  LET row == X[1]
      n   == Len(row)
      of(buckets) == CombineBuckets(mode, [b \in 1..n_buckets |-> BucketAggregate(mode, row, buckets[b])])
  IN  IF \/ method \notin {"static", "dynamic"}
         \/ n_buckets <= 0
         \/ (n_buckets > n /\ ~bootstrap_estimators)
      THEN {Err("ConfigurationError")}
      ELSE IF bootstrap_estimators
      THEN LET aggs == BootstrapAggregates(mode, row, n_buckets, method)
           IN  IF mode = "AOM"
               \* the buckets are drawn independently: the mean of n_buckets maxima
               THEN {Ok(Frac(t, n_buckets)) : t \in DrawSums({a.num : a \in aggs}, n_buckets)}
               \* the maximum of n_buckets drawn means ranges over the means
               ELSE {Ok(a) : a \in aggs}
      ELSE IF method = "static"
      THEN {Ok(of(StaticBuckets(n, n_buckets)))}
      ELSE {Ok(of(bs)) : bs \in DynamicBuckets(n, n_buckets)}

lib_aom(X, n_buckets, method, bootstrap_estimators) ==
  lib_bucketed("AOM", X, n_buckets, method, bootstrap_estimators)

lib_moa(X, n_buckets, method, bootstrap_estimators) ==
  lib_bucketed("MOA", X, n_buckets, method, bootstrap_estimators)

---------------------------------------------------------------------------
(* The ensemblers: pysad/transform/ensemble/ensemblers.py *)


(* Mutant: scores.reshape(-1, 1), one row per detector *)
Reshape_column(s) == [i \in 1..Len(s) |-> <<s[i]>>]

(* scores.reshape(1, -1): the vector becomes a matrix of one row *)
Reshape(s) == <<s>>


(* Mutant: the constructor drops the weights *)
AverageScoreEnsembler_init_unweighted(estimator_weights) ==
  [cls |-> "AverageScoreEnsembler", estimator_weights |-> None]

AverageScoreEnsembler_init(estimator_weights) ==
  [cls |-> "AverageScoreEnsembler", estimator_weights |-> estimator_weights]

MaxScoreEnsembler_init == [cls |-> "MaxScoreEnsembler"]

MedianScoreEnsembler_init == [cls |-> "MedianScoreEnsembler"]


(* Mutant: the constructor keeps the default method, not its argument *)
AverageOfMaximumEnsembler_init_static(n_buckets, method, bootstrap_estimators) ==
  [cls |-> "AverageOfMaximumEnsembler", method |-> "static", n_buckets |-> n_buckets,
   bootstrap_estimators |-> bootstrap_estimators]

(* The constructors of the bucket-based ensemblers store their arguments   *)
(* and check none of them.                                                 *)
AverageOfMaximumEnsembler_init(n_buckets, method, bootstrap_estimators) ==
  [cls |-> "AverageOfMaximumEnsembler", method |-> method, n_buckets |-> n_buckets,
   bootstrap_estimators |-> bootstrap_estimators]

MaximumOfAverageEnsembler_init(n_buckets, method, bootstrap_estimators) ==
  [cls |-> "MaximumOfAverageEnsembler", method |-> method, n_buckets |-> n_buckets,
   bootstrap_estimators |-> bootstrap_estimators]


(* Mutant: the weights are not passed on *)
AverageScoreEnsembler_combine_noweights(self, X) == lib_average(X, None)

AverageScoreEnsembler_combine(self, X) == lib_average(X, self.estimator_weights)


(* Mutant: the wrong combination function is called *)
MaxScoreEnsembler_combine_median(self, X) == lib_median(X)

MaxScoreEnsembler_combine(self, X) == lib_maximization(X)


(* Mutant: the wrong combination function is called *)
MedianScoreEnsembler_combine_average(self, X) == lib_average(X, None)

MedianScoreEnsembler_combine(self, X) == lib_median(X)


(* Mutant: moa is called where aom is meant *)
AverageOfMaximumEnsembler_combine_moa(self, X) ==
  lib_moa(X, self.n_buckets, self.method, self.bootstrap_estimators)

(* Mutant: n_buckets is clamped into 1..detector count before the call *)
AverageOfMaximumEnsembler_combine_clamped(self, X) ==
  LET n == Len(X[1])
      nb == IF self.n_buckets < 1 THEN 1 ELSE IF self.n_buckets > n THEN n ELSE self.n_buckets
  IN  lib_aom(X, nb, self.method, self.bootstrap_estimators)

AverageOfMaximumEnsembler_combine(self, X) ==
  lib_aom(X, self.n_buckets, self.method, self.bootstrap_estimators)

MaximumOfAverageEnsembler_combine(self, X) ==
  lib_moa(X, self.n_buckets, self.method, self.bootstrap_estimators)

(* self._combine(scores): the subclass's implementation of the abstract method *)
PYODScoreEnsembler_combine(self, X) ==
  CASE self.cls = "AverageScoreEnsembler"     -> AverageScoreEnsembler_combine(self, X)
    [] self.cls = "MaxScoreEnsembler"         -> MaxScoreEnsembler_combine(self, X)
    [] self.cls = "MedianScoreEnsembler"      -> MedianScoreEnsembler_combine(self, X)
    [] self.cls = "AverageOfMaximumEnsembler" -> AverageOfMaximumEnsembler_combine(self, X)
    [] self.cls = "MaximumOfAverageEnsembler" -> MaximumOfAverageEnsembler_combine(self, X)

(* transform_partial: the results the call can give; an error of the       *)
(* library is not caught                                                   *)
transform_partial(self, s) == PYODScoreEnsembler_combine(self, Reshape(s))


(* Mutant: the call records the detector count in n_buckets *)
transform_partial_self_rebucket(self, s) ==
  IF self.cls \in {"AverageOfMaximumEnsembler", "MaximumOfAverageEnsembler"}
  THEN [self EXCEPT !.n_buckets = Len(s)]
  ELSE self

(* transform_partial assigns to no attribute of self *)
transform_partial_self(self, s) == self

IsBucketBased(e) == e.cls \in {"AverageOfMaximumEnsembler", "MaximumOfAverageEnsembler"}

ConstructAverage ==
  /\ pc = "new"
  /\ \E w \in {None} \cup {Some(v) : v \in WeightVectors} :
       /\ ens' = AverageScoreEnsembler_init(w)
       /\ ctor' = [cls |-> "AverageScoreEnsembler", estimator_weights |-> w]
  /\ pc' = "ready"
  /\ UNCHANGED <<scores, outcome, agree, modelVars>>

ConstructMax ==
  /\ pc = "new"
  /\ ens' = MaxScoreEnsembler_init
  /\ ctor' = [cls |-> "MaxScoreEnsembler"]
  /\ pc' = "ready"
  /\ UNCHANGED <<scores, outcome, agree, modelVars>>

ConstructMedian ==
  /\ pc = "new"
  /\ ens' = MedianScoreEnsembler_init
  /\ ctor' = [cls |-> "MedianScoreEnsembler"]
  /\ pc' = "ready"
  /\ UNCHANGED <<scores, outcome, agree, modelVars>>

ConstructAverageOfMaximum ==
  /\ pc = "new"
  /\ \E nb \in NBucketChoices, m \in Methods, bs \in BOOLEAN :
       /\ ens' = AverageOfMaximumEnsembler_init(nb, m, bs)
       /\ ctor' = [cls |-> "AverageOfMaximumEnsembler", method |-> m, n_buckets |-> nb,
                   bootstrap_estimators |-> bs]
  /\ pc' = "ready"
  /\ UNCHANGED <<scores, outcome, agree, modelVars>>

ConstructMaximumOfAverage ==
  /\ pc = "new"
  /\ \E nb \in NBucketChoices, m \in Methods, bs \in BOOLEAN :
       /\ ens' = MaximumOfAverageEnsembler_init(nb, m, bs)
       /\ ctor' = [cls |-> "MaximumOfAverageEnsembler", method |-> m, n_buckets |-> nb,
                   bootstrap_estimators |-> bs]
  /\ pc' = "ready"
  /\ UNCHANGED <<scores, outcome, agree, modelVars>>

TransformPartial ==
  /\ pc = "ready"
  /\ \E s \in ScoreVectors :
       \E o \in transform_partial(ens, s) :
         /\ scores' = s
         /\ outcome' = o
         /\ ens' = transform_partial_self(ens, s)
         /\ agree' = IF outcome # NoCall /\ s = scores
                     THEN (IF o = outcome THEN "same" ELSE "differ")
                     ELSE "na"
  /\ UNCHANGED <<pc, ctor, modelVars>>

---------------------------------------------------------------------------
(* The model holder: models/pyod_model.py *)

ModelClasses == {"KNN", "LOF", "IForest"}

KwargsChoices == {{}, {<<"contamination", 1>>}, {<<"n_neighbors", 5>>}}

(* model_cls called with the keyword arguments: the class's instance number id *)
Instantiate(cls, kw, id) == [cls |-> cls, kwargs |-> kw, id |-> id]

(* __init__: the base class keeps the keyword arguments as self.kwargs,    *)
(* which reset_model reads; model_cls is stored and model starts as None   *)
PYODModel_init(cls, kw) == [model_cls |-> cls, kwargs |-> kw, model |-> None]


(* Mutant: an instance that exists is kept *)
reset_model_keep(self, id) ==
  IF self.model = None
  THEN [self EXCEPT !.model = Some(Instantiate(self.model_cls, self.kwargs, id))]
  ELSE self

(* reset_model, when the class's next instance is number id *)
reset_model(self, id) ==
  [self EXCEPT !.model = Some(Instantiate(self.model_cls, self.kwargs, id))]

ConstructModel ==
  /\ mpc = "new"
  /\ \E cls \in ModelClasses, kw \in KwargsChoices :
       /\ pm' = PYODModel_init(cls, kw)
       /\ margs' = [model_cls |-> cls, kwargs |-> kw]
  /\ mpc' = "ready"
  /\ UNCHANGED <<built, ensVars>>

ResetModel ==
  /\ mpc = "ready"
  /\ built < MaxResets
  /\ pm' = reset_model(pm, built + 1)
  /\ built' = built + 1
  /\ UNCHANGED <<mpc, margs, ensVars>>

---------------------------------------------------------------------------
(* Specifications *)

Init ==
  /\ pc = "new"
  /\ ens = [cls |-> "none"]
  /\ ctor = [cls |-> "none"]
  /\ scores = <<>>
  /\ outcome = NoCall
  /\ agree = "na"
  /\ mpc = "new"
  /\ pm = [model_cls |-> "none", kwargs |-> {}, model |-> None]
  /\ margs = [model_cls |-> "none", kwargs |-> {}]
  /\ built = 0

Next ==
  \/ ConstructAverage
  \/ ConstructMax
  \/ ConstructMedian
  \/ ConstructAverageOfMaximum
  \/ ConstructMaximumOfAverage
  \/ TransformPartial

(* The life of one ensembler *)
Spec == Init /\ [][Next]_vars

NextModel ==
  \/ ConstructModel
  \/ ResetModel

(* The life of one PYODModel *)
SpecModel == Init /\ [][NextModel]_vars

---------------------------------------------------------------------------
(* Properties *)

Called == pc = "ready" /\ outcome # NoCall

StaticNoBootstrap(e) ==
  IsBucketBased(e) /\ e.method = "static" /\ ~e.bootstrap_estimators

(* f is the fraction a / b *)
IsFraction(f, a, b) == f.den > 0 /\ f.num * b = a * f.den

(* The k-th smallest element of a row, by counting *)
KthSmallest(row, k) ==
  CHOOSE v \in {row[i] : i \in DOMAIN row} :
    /\ Cardinality({i \in DOMAIN row : row[i] < v}) < k
    /\ Cardinality({i \in DOMAIN row : row[i] <= v}) >= k

(* C1, as claimed: with n_buckets equal to the number of scores, method    *)
(* 'static' and bootstrap disabled, every bucket holds exactly one score   *)
(* and both bucket-based ensemblers return the arithmetic mean of all      *)
(* scores.                                                                 *)
C1_BothGiveMean ==
  (Called /\ StaticNoBootstrap(ens) /\ ens.n_buckets = Len(scores)) =>
    /\ \A b \in 1..ens.n_buckets : Len(StaticBuckets(Len(scores), ens.n_buckets)[b]) = 1
    /\ outcome.tag = "ok"
    /\ IsFraction(outcome.score, SumSeq(scores), Len(scores))

(* C1, amended: with n_buckets equal to the number of scores, method       *)
(* 'static' and bootstrap disabled, every bucket holds exactly one score;  *)
(* AverageOfMaximum returns the arithmetic mean of all scores and          *)
(* MaximumOfAverage returns the maximum of all scores.                     *)
C1_SingletonBuckets ==
  (Called /\ StaticNoBootstrap(ens) /\ ens.n_buckets = Len(scores)) =>
    /\ \A b \in 1..ens.n_buckets : Len(StaticBuckets(Len(scores), ens.n_buckets)[b]) = 1
    /\ outcome.tag = "ok"
    /\ ens.cls = "AverageOfMaximumEnsembler" =>
         IsFraction(outcome.score, SumSeq(scores), Len(scores))
    /\ ens.cls = "MaximumOfAverageEnsembler" =>
         IsFraction(outcome.score, MaxSeq(scores), 1)

C1_Witness ==
  /\ Called /\ StaticNoBootstrap(ens)
  /\ ens.cls = "MaximumOfAverageEnsembler"
  /\ ens.n_buckets = 3
  /\ scores = <<0, 1, 1>>
  /\ outcome = Ok([num |-> 1, den |-> 1])

(* C2, as claimed: no bucket-based ensembler with a method other than      *)
(* 'static' and 'dynamic' ever exists.                                     *)
C2_NoInvalidMethodObject ==
  (pc = "ready" /\ IsBucketBased(ens)) => ens.method \in {"static", "dynamic"}

(* C2, amended: the constructors of the bucket-based ensemblers never      *)
(* reject a method: the ensembler exists and holds the method it was       *)
(* given, valid or not.                                                    *)
C2_MethodStoredUnchecked ==
  (pc = "ready" /\ IsBucketBased(ctor)) =>
    /\ ens.cls = ctor.cls
    /\ ens.method = ctor.method

C2_Witness ==
  /\ pc = "ready"
  /\ ens.cls = "AverageOfMaximumEnsembler"
  /\ ctor.method = "random"
  /\ ens.method = "random"

(* C3, as claimed: with n_buckets = 1 and method 'static' (bootstrap       *)
(* enabled or not), AverageOfMaximum returns the maximum of all scores and *)
(* MaximumOfAverage returns their arithmetic mean.                         *)
C3_SingleBucketAnyBootstrap ==
  (Called /\ IsBucketBased(ens) /\ ens.method = "static" /\ ens.n_buckets = 1) =>
    /\ outcome.tag = "ok"
    /\ ens.cls = "AverageOfMaximumEnsembler" => IsFraction(outcome.score, MaxSeq(scores), 1)
    /\ ens.cls = "MaximumOfAverageEnsembler" => IsFraction(outcome.score, SumSeq(scores), Len(scores))

(* C3, amended: with n_buckets = 1, method 'static' and bootstrap          *)
(* disabled, AverageOfMaximum returns the maximum of all scores and        *)
(* MaximumOfAverage returns their arithmetic mean.                         *)
C3_SingleBucketDegenerates ==
  (Called /\ StaticNoBootstrap(ens) /\ ens.n_buckets = 1) =>
    /\ outcome.tag = "ok"
    /\ ens.cls = "AverageOfMaximumEnsembler" => IsFraction(outcome.score, MaxSeq(scores), 1)
    /\ ens.cls = "MaximumOfAverageEnsembler" => IsFraction(outcome.score, SumSeq(scores), Len(scores))

C3_Witness ==
  /\ Called /\ StaticNoBootstrap(ens)
  /\ ens.cls = "AverageOfMaximumEnsembler"
  /\ ens.n_buckets = 1
  /\ scores = <<0, 1, 0>>
  /\ outcome = Ok([num |-> 1, den |-> 1])

C5_AverageIsWeightedMean ==
  (Called /\ ctor.cls = "AverageScoreEnsembler") =>
    /\ ctor.estimator_weights = None =>
         /\ outcome.tag = "ok"
         /\ IsFraction(outcome.score, SumSeq(scores), Len(scores))
    /\ (ctor.estimator_weights # None /\ Len(ctor.estimator_weights[1]) = Len(scores)) =>
         /\ outcome.tag = "ok"
         /\ IsFraction(outcome.score,
                       SumSeq([i \in 1..Len(scores) |-> ctor.estimator_weights[1][i] * scores[i]]),
                       SumSeq(ctor.estimator_weights[1]))

C5_Witness ==
  /\ Called
  /\ ens.cls = "AverageScoreEnsembler"
  /\ ctor.estimator_weights = Some(<<1, 2>>)
  /\ scores = <<0, 1>>
  /\ outcome = Ok([num |-> 2, den |-> 3])

C8_MaxIsMaximum ==
  (Called /\ ens.cls = "MaxScoreEnsembler") =>
    /\ outcome.tag = "ok"
    /\ outcome.score.den = 1
    /\ \E i \in DOMAIN scores : scores[i] = outcome.score.num
    /\ \A i \in DOMAIN scores : scores[i] <= outcome.score.num

C8_Witness ==
  /\ Called
  /\ ens.cls = "MaxScoreEnsembler"
  /\ scores = <<0, 1, 0>>
  /\ outcome = Ok([num |-> 1, den |-> 1])

(* The configurations whose result consumes no random source *)
Deterministic(e) ==
  \/ e.cls \in {"AverageScoreEnsembler", "MaxScoreEnsembler", "MedianScoreEnsembler"}
  \/ StaticNoBootstrap(e)

RandomModeDiffers == pc = "ready" /\ ~Deterministic(ens) /\ agree = "differ"

(* C10: the model field of a PYODModel is None until the first             *)
(* reset_model; after a reset it is the instance that reset built, by      *)
(* model_cls from the keyword arguments given at construction, a new       *)
(* instance each time; reset_model changes neither model_cls nor the       *)
(* keyword arguments.                                                      *)
C10_ModelIsNoneOrFresh ==
  mpc = "ready" =>
    /\ pm.model_cls = margs.model_cls
    /\ pm.kwargs = margs.kwargs
    /\ built = 0 <=> pm.model = None
    /\ pm.model # None =>
         /\ pm.model[1].cls = margs.model_cls
         /\ pm.model[1].kwargs = margs.kwargs
         /\ pm.model[1].id = built

C10_Witness ==
  /\ mpc = "ready"
  /\ built = 2
  /\ pm.model = Some(Instantiate("KNN", {<<"n_neighbors", 5>>}, 2))

====
